---- MODULE Spec2Model ----
(***************************************************************************)
(* Per-game settings editor of the R4 theme ROM selector                   *)
(* (romsel_r4theme/arm9/source/perGameSettings.cpp).                       *)
(*                                                                         *)
(* The module models the globals of perGameSettings.cpp, the per-title    *)
(* .ini files on the two storage devices, and the editor loop of          *)
(* perGameSettings(): one step per frame in which keysDownRepeat()         *)
(* returned a non-zero key mask.                                           *)
(***************************************************************************)
EXTENDS Integers, FiniteSets, Sequences, TLC

VARIABLES
    \* hardware / launcher context (externs, read-only for this file)
    isDSiMode,              \* result of isDSiMode()
    REG_SCFG_EXT,           \* extended system configuration register (0 = absent)
    useBootstrap,           \* extern bool useBootstrap
    secondaryDevice,        \* extern bool secondaryDevice
    \* classification of the selected title (externs set by the caller)
    isHomebrew,             \* 0, 1 or 2
    isDSiWare,
    \* perGameSettings(filename)
    filename,               \* argument of perGameSettings()
    isLauncharg,            \* local of perGameSettings()
    pc,                     \* "idle" (not in perGameSettings), "resolve" (in the
                            \* appVer loop) or "loop" (in while (1))
    appVer,                 \* u8 appVer of the .launcharg loop
    probes,                 \* access() calls made by the .launcharg loop
    appFiles,               \* versions xx whose content/000000xx.app exists
    \* globals of perGameSettings.cpp
    perGameSettingsChanged,
    perGameSettings_cursorPosition,
    perGameSettings_directBoot,
    perGameSettings_dsiMode,
    perGameSettings_language,
    perGameSettings_boostCpu,
    perGameSettings_boostVram,
    perGameSettings_bootstrapFile,
    \* storage
    files,                  \* [device, title] -> content of the title's .ini file
    saveResult,             \* outcome of the last savePerGameSettings call of the session
    \* exploration counters
    sessions,               \* calls of perGameSettings() so far
    frames                  \* key masks handled so far

ctx == <<isDSiMode, REG_SCFG_EXT, useBootstrap, secondaryDevice>>
title == <<isHomebrew, isDSiWare, filename, isLauncharg>>
resolve == <<appVer, probes, appFiles>>
settings == <<perGameSettings_directBoot, perGameSettings_dsiMode,
              perGameSettings_language, perGameSettings_boostCpu,
              perGameSettings_boostVram, perGameSettings_bootstrapFile>>
vars == <<ctx, title, pc, perGameSettingsChanged,
          perGameSettings_cursorPosition, settings, files, saveResult,
          sessions, frames, resolve>>

----------------------------------------------------------------------------
(* Bounds of the exploration *)

\* calls of perGameSettings() explored in one run
MaxSessions == 2

\* key masks handled in one run, over all its sessions
MaxFrames == 4

\* access() calls of the .launcharg loop followed in one run
MaxProbes == 260

----------------------------------------------------------------------------
(* Inputs *)

\* the keys the loop tests
Keys == {"KEY_A", "KEY_B", "KEY_UP", "KEY_DOWN"}

\* keysDownRepeat() results that leave the do/while: every non-zero mask
KeyMasks == (SUBSET Keys) \ {{}}

\* titles: file names with their extension
Titles == { [base |-> "game", ext |-> "nds"],
            [base |-> "chan", ext |-> "launcharg"] }

\* (isHomebrew, isDSiWare) pairs the classifier produces
Classifications == { [isHomebrew |-> 0, isDSiWare |-> FALSE],
                     [isHomebrew |-> 1, isDSiWare |-> FALSE],
                     [isHomebrew |-> 2, isDSiWare |-> FALSE],
                     [isHomebrew |-> 0, isDSiWare |-> TRUE] }

\* "sd:" or "fat:" prefix of the settings path
DevicePrefix(secondary) == IF secondary THEN "fat:" ELSE "sd:"

Devices == {"sd:", "fat:"}

\* pergamefilepath: "%s/_nds/TWiLightMenu/gamesettings/%s.ini"
SettingsPath(secondary, fname) == <<DevicePrefix(secondary), fname>>

IniKeys == {"DIRECT_BOOT", "DSI_MODE", "LANGUAGE", "BOOST_CPU", "BOOST_VRAM",
            "BOOTSTRAP_FILE", "NO_SHOW_AP_MSG"}

----------------------------------------------------------------------------
(* CIniFile, section GAMESETTINGS: a file is a function from the keys it     *)
(* holds to integers; a missing file holds no key.  SaveIniFile either       *)
(* replaces the file by the content it is given or fails and leaves it.      *)

EmptyIni == [k \in {} |-> 0]

GetInt(ini, key, default) ==
    IF key \in DOMAIN ini THEN ini[key] ELSE default

SetInt(ini, key, value) ==
    [k \in (DOMAIN ini) \cup {key} |-> IF k = key THEN value ELSE ini[k]]

\* the file after SaveIniFile of ini over stored: replaced when the write is
\* carried out, left as it was when the write fails
SaveIniFile(stored, ini, written) == IF written THEN ini ELSE stored

\* C++ conversions bool -> int and int -> bool
BoolToInt(b) == IF b THEN 1 ELSE 0
IntToBool(i) == i # 0

----------------------------------------------------------------------------
(* loadPerGameSettings / savePerGameSettings as functions of the file       *)

\* LANGUAGE read with the default of the other integer keys
LoadedSettings_LanguageDefault(ini, secondary) ==
    [ directBoot    |-> IntToBool(GetInt(ini, "DIRECT_BOOT", BoolToInt(secondary))),
      dsiMode       |-> GetInt(ini, "DSI_MODE", -1),
      language      |-> GetInt(ini, "LANGUAGE", -1),
      boostCpu      |-> GetInt(ini, "BOOST_CPU", -1),
      boostVram     |-> GetInt(ini, "BOOST_VRAM", -1),
      bootstrapFile |-> GetInt(ini, "BOOTSTRAP_FILE", -1) ]

\* the six values loadPerGameSettings assigns, as a record
LoadedSettings(ini, secondary) ==
    [ directBoot    |-> IntToBool(GetInt(ini, "DIRECT_BOOT", BoolToInt(secondary))),
      dsiMode       |-> GetInt(ini, "DSI_MODE", -1),
      language      |-> GetInt(ini, "LANGUAGE", -2),
      boostCpu      |-> GetInt(ini, "BOOST_CPU", -1),
      boostVram     |-> GetInt(ini, "BOOST_VRAM", -1),
      bootstrapFile |-> GetInt(ini, "BOOTSTRAP_FILE", -1) ]

\* the working values as a record
Working ==
    [ directBoot    |-> perGameSettings_directBoot,
      dsiMode       |-> perGameSettings_dsiMode,
      language      |-> perGameSettings_language,
      boostCpu      |-> perGameSettings_boostCpu,
      boostVram     |-> perGameSettings_boostVram,
      bootstrapFile |-> perGameSettings_bootstrapFile ]

\* the DSI_MODE / BOOST_CPU / BOOST_VRAM block, written under isDSiMode()
SetDsiBlock(ini, s) ==
    SetInt(SetInt(SetInt(ini, "DSI_MODE", s.dsiMode),
                  "BOOST_CPU", s.boostCpu),
           "BOOST_VRAM", s.boostVram)

\* savePerGameSettings with the non-homebrew branch not guarded by isDSiMode()
SavedIni_RetailUnguarded(ini, s, homebrew, dsi, secondary) ==
    IF homebrew = 1
    THEN LET a == SetInt(ini, "DIRECT_BOOT", BoolToInt(s.directBoot))
         IN  IF dsi THEN SetDsiBlock(a, s) ELSE a
    ELSE LET a == IF ~secondary THEN SetInt(ini, "LANGUAGE", s.language) ELSE ini
             b == SetDsiBlock(a, s)
         IN  IF ~secondary THEN SetInt(b, "BOOTSTRAP_FILE", s.bootstrapFile) ELSE b

\* savePerGameSettings setting its keys in an empty file instead of the one
\* read from the title's path
SavedIni_FromScratch(ini, s, homebrew, dsi, secondary) ==
    IF homebrew = 1
    THEN LET a == SetInt(EmptyIni, "DIRECT_BOOT", BoolToInt(s.directBoot))
         IN  IF dsi THEN SetDsiBlock(a, s) ELSE a
    ELSE IF dsi
    THEN LET a == IF ~secondary THEN SetInt(EmptyIni, "LANGUAGE", s.language)
                  ELSE EmptyIni
             b == IF dsi THEN SetDsiBlock(a, s) ELSE a
         IN  IF ~secondary THEN SetInt(b, "BOOTSTRAP_FILE", s.bootstrapFile) ELSE b
    ELSE EmptyIni

\* the content savePerGameSettings hands to SaveIniFile
SavedIni(ini, s, homebrew, dsi, secondary) ==
    IF homebrew = 1
    THEN LET a == SetInt(ini, "DIRECT_BOOT", BoolToInt(s.directBoot))
         IN  IF dsi THEN SetDsiBlock(a, s) ELSE a
    ELSE IF dsi
    THEN LET a == IF ~secondary THEN SetInt(ini, "LANGUAGE", s.language) ELSE ini
             b == IF dsi THEN SetDsiBlock(a, s) ELSE a
         IN  IF ~secondary THEN SetInt(b, "BOOTSTRAP_FILE", s.bootstrapFile) ELSE b
    ELSE ini

\* checkIfShowAPMsg
checkIfShowAPMsg(ini) == GetInt(ini, "NO_SHOW_AP_MSG", 0) = 0

----------------------------------------------------------------------------
(* Which screen the loop draws and handles *)

IsLaunchargName(fname) == fname.ext \in {"launcharg", "LAUNCHARG"}

\* the "Info" branch without the test for homebrew type 2
InfoScreen_WithoutType2 ==
    /\ isHomebrew # 1
    /\ (isLauncharg \/ isDSiWare
        \/ (~useBootstrap /\ REG_SCFG_EXT = 0))

\* the "Info" branch: nothing to edit
InfoScreen ==
    /\ isHomebrew # 1
    /\ (isLauncharg \/ isDSiWare \/ isHomebrew = 2
        \/ (~useBootstrap /\ REG_SCFG_EXT = 0))

----------------------------------------------------------------------------
(* Cursor movement (the same statements in the homebrew and the             *)
(* non-homebrew branch)                                                     *)

CursorUp(c) ==
    IF useBootstrap
    THEN LET c1 == c - 1
             c2 == IF c1 < 0 THEN 4 ELSE c1
             c3 == IF ~isDSiMode /\ REG_SCFG_EXT # 0 /\ c2 = 1 THEN 0 ELSE c2
             c4 == IF ~isDSiMode /\ REG_SCFG_EXT = 0 /\ c3 = 3 THEN 0 ELSE c3
         IN  c4
    ELSE LET c1 == c - 1
         IN  IF c1 < 2 THEN 3 ELSE c1

CursorDown(c) ==
    IF useBootstrap
    THEN LET c1 == c + 1
             c2 == IF c1 > 4 THEN 0 ELSE c1
             c3 == IF ~isDSiMode /\ REG_SCFG_EXT # 0 /\ c2 = 1 THEN 2 ELSE c2
             c4 == IF ~isDSiMode /\ REG_SCFG_EXT = 0 /\ c3 = 1 THEN 4 ELSE c3
         IN  c4
    ELSE LET c1 == c + 1
         IN  IF c1 > 3 THEN 2 ELSE c1

\* the cursor after the KEY_UP and KEY_DOWN tests of one frame
MovedCursor(c, mask) ==
    LET u == IF "KEY_UP" \in mask THEN CursorUp(c) ELSE c
    IN  IF "KEY_DOWN" \in mask THEN CursorDown(u) ELSE u

----------------------------------------------------------------------------
(* KEY_A: the switch on the cursor position *)

\* the wrap test written with >= : the last value of the domain is skipped
Cycle_SkipsLast(x, hi, lo) == IF x + 1 >= hi THEN lo ELSE x + 1

\* x++ without the wrap test
Cycle_NoWrap(x, hi, lo) == x + 1

\* x++ followed by "if (x > hi) x = lo"
Cycle(x, hi, lo) == IF x + 1 > hi THEN lo ELSE x + 1

ActivateHomebrew(c, s) ==
    CASE c = 1 -> [s EXCEPT !.dsiMode = Cycle(s.dsiMode, 2, -1)]
      [] c = 2 -> IF s.dsiMode = 0
                  THEN [s EXCEPT !.boostCpu = Cycle(s.boostCpu, 1, -1)]
                  ELSE s
      [] c = 3 -> IF s.dsiMode = 0
                  THEN [s EXCEPT !.boostVram = Cycle(s.boostVram, 1, -1)]
                  ELSE s
      [] c = 4 -> [s EXCEPT !.bootstrapFile = Cycle(s.bootstrapFile, 1, -1)]
      [] OTHER -> [s EXCEPT !.directBoot = ~s.directBoot]

\* the non-homebrew switch with the homebrew default case
ActivateRetail_TogglesDirectBoot(c, s) ==
    CASE c = 1 -> [s EXCEPT !.dsiMode = Cycle(s.dsiMode, 2, -1)]
      [] c = 2 -> IF s.dsiMode < 1
                  THEN [s EXCEPT !.boostCpu = Cycle(s.boostCpu, 1, -1)]
                  ELSE s
      [] c = 3 -> IF s.dsiMode < 1
                  THEN [s EXCEPT !.boostVram = Cycle(s.boostVram, 1, -1)]
                  ELSE s
      [] c = 4 -> [s EXCEPT !.bootstrapFile = Cycle(s.bootstrapFile, 1, -1)]
      [] OTHER -> [s EXCEPT !.directBoot = ~s.directBoot]

\* the non-homebrew switch setting the boost values when RunMode becomes 2
ActivateRetail_ForcedSetsBoost(c, s) ==
    CASE c = 1 -> IF Cycle(s.dsiMode, 2, -1) = 2
                  THEN [s EXCEPT !.dsiMode = 2, !.boostCpu = 1, !.boostVram = 1]
                  ELSE [s EXCEPT !.dsiMode = Cycle(s.dsiMode, 2, -1)]
      [] c = 2 -> IF s.dsiMode < 1
                  THEN [s EXCEPT !.boostCpu = Cycle(s.boostCpu, 1, -1)]
                  ELSE s
      [] c = 3 -> IF s.dsiMode < 1
                  THEN [s EXCEPT !.boostVram = Cycle(s.boostVram, 1, -1)]
                  ELSE s
      [] c = 4 -> [s EXCEPT !.bootstrapFile = Cycle(s.bootstrapFile, 1, -1)]
      [] OTHER -> [s EXCEPT !.language = Cycle(s.language, 5, -2)]

ActivateRetail(c, s) ==
    CASE c = 1 -> [s EXCEPT !.dsiMode = Cycle(s.dsiMode, 2, -1)]
      [] c = 2 -> IF s.dsiMode < 1
                  THEN [s EXCEPT !.boostCpu = Cycle(s.boostCpu, 1, -1)]
                  ELSE s
      [] c = 3 -> IF s.dsiMode < 1
                  THEN [s EXCEPT !.boostVram = Cycle(s.boostVram, 1, -1)]
                  ELSE s
      [] c = 4 -> [s EXCEPT !.bootstrapFile = Cycle(s.bootstrapFile, 1, -1)]
      [] OTHER -> [s EXCEPT !.language = Cycle(s.language, 5, -2)]

\* perGameSettingsChanged after the KEY_A block
ChangedHomebrew(changed) == ~changed
ChangedRetail(changed) == TRUE

----------------------------------------------------------------------------
(* Initial state: the launcher is running, no editor is open *)

\* a file as an earlier run of the editor and of the launcher left it
StoredIni ==
    [k \in IniKeys |->
        CASE k = "DIRECT_BOOT"    -> 1
          [] k = "DSI_MODE"       -> 2
          [] k = "LANGUAGE"       -> 1
          [] k = "BOOST_CPU"      -> 0
          [] k = "BOOST_VRAM"     -> 1
          [] k = "BOOTSTRAP_FILE" -> 0
          [] OTHER                -> 1]

\* a file that holds the anti-piracy flag only
FlagOnlyIni == [k \in {"NO_SHOW_AP_MSG"} |-> 1]

InitialFiles ==
    [p \in Devices \X Titles |->
        CASE p[1] = "sd:"  /\ p[2].base = "game" -> EmptyIni
          [] p[1] = "sd:"  /\ p[2].base = "chan" -> StoredIni
          [] p[1] = "fat:" /\ p[2].base = "game" -> StoredIni
          [] p[1] = "fat:" /\ p[2].base = "chan" -> FlagOnlyIni]

\* the editor's part of the initial state
InitEditor ==
    /\ isDSiMode \in BOOLEAN
    /\ REG_SCFG_EXT \in {0, 1}
    /\ useBootstrap \in BOOLEAN
    /\ secondaryDevice \in BOOLEAN
    /\ isHomebrew = 0
    /\ isDSiWare = FALSE
    /\ filename = [base |-> "game", ext |-> "nds"]
    /\ isLauncharg = FALSE
    /\ pc = "idle"
    /\ perGameSettingsChanged = FALSE
    /\ perGameSettings_cursorPosition = 0
    /\ perGameSettings_directBoot = FALSE
    /\ perGameSettings_dsiMode = -1
    /\ perGameSettings_language = -2
    /\ perGameSettings_boostCpu = -1
    /\ perGameSettings_boostVram = -1
    /\ perGameSettings_bootstrapFile = -1
    /\ files = InitialFiles
    /\ saveResult = "none"
    /\ sessions = 0
    /\ frames = 0

\* titles whose executable resolves at once: the .launcharg loop is not entered
Init ==
    /\ InitEditor
    /\ appVer = 0
    /\ probes = 0
    /\ appFiles = {0}

----------------------------------------------------------------------------
(* perGameSettings(filename): entry up to the first rendering *)

\* the entry without the reset of the cursor position
Open_KeepsCursor(fname, class) ==
    /\ pc = "idle"
    /\ sessions < MaxSessions
    /\ LET s == LoadedSettings(files[SettingsPath(secondaryDevice, fname)],
                               secondaryDevice)
       IN  /\ perGameSettings_directBoot' = s.directBoot
           /\ perGameSettings_dsiMode' = s.dsiMode
           /\ perGameSettings_language' = s.language
           /\ perGameSettings_boostCpu' = s.boostCpu
           /\ perGameSettings_boostVram' = s.boostVram
           /\ perGameSettings_bootstrapFile' = s.bootstrapFile
        /\ filename' = fname
    /\ isLauncharg' = IsLaunchargName(fname)
    /\ isHomebrew' = class.isHomebrew
    /\ isDSiWare' = class.isDSiWare
    /\ pc' = "loop"
    /\ saveResult' = "none"
    /\ sessions' = sessions + 1
    /\ UNCHANGED <<ctx, perGameSettingsChanged, perGameSettings_cursorPosition, files, frames,
                   resolve>>

\* the entry with BOOTSTRAP_FILE left out of the load
Open_KeepsBootstrapFile(fname, class) ==
    /\ pc = "idle"
    /\ sessions < MaxSessions
    /\ LET s == LoadedSettings(files[SettingsPath(secondaryDevice, fname)],
                               secondaryDevice)
       IN  /\ perGameSettings_directBoot' = s.directBoot
           /\ perGameSettings_dsiMode' = s.dsiMode
           /\ perGameSettings_language' = s.language
           /\ perGameSettings_boostCpu' = s.boostCpu
           /\ perGameSettings_boostVram' = s.boostVram
           /\ perGameSettings_bootstrapFile' = perGameSettings_bootstrapFile
    /\ perGameSettings_cursorPosition' = 0
    /\ filename' = fname
    /\ isLauncharg' = IsLaunchargName(fname)
    /\ isHomebrew' = class.isHomebrew
    /\ isDSiWare' = class.isDSiWare
    /\ pc' = "loop"
    /\ saveResult' = "none"
    /\ sessions' = sessions + 1
    /\ UNCHANGED <<ctx, perGameSettingsChanged, files, frames, resolve>>

\* lines 143-204: the cursor reset, the load and the title's classification
Open(fname, class) ==
    /\ pc = "idle"
    /\ sessions < MaxSessions
    /\ LET s == LoadedSettings(files[SettingsPath(secondaryDevice, fname)],
                               secondaryDevice)
       IN  /\ perGameSettings_directBoot' = s.directBoot
           /\ perGameSettings_dsiMode' = s.dsiMode
           /\ perGameSettings_language' = s.language
           /\ perGameSettings_boostCpu' = s.boostCpu
           /\ perGameSettings_boostVram' = s.boostVram
           /\ perGameSettings_bootstrapFile' = s.bootstrapFile
    /\ perGameSettings_cursorPosition' = 0
    /\ filename' = fname
    /\ isLauncharg' = IsLaunchargName(fname)
    /\ isHomebrew' = class.isHomebrew
    /\ isDSiWare' = class.isDSiWare
    /\ pc' = "loop"
    /\ saveResult' = "none"
    /\ sessions' = sessions + 1
    /\ UNCHANGED <<ctx, perGameSettingsChanged, files, frames, resolve>>

----------------------------------------------------------------------------
(* One frame of the loop: the handling of a non-zero key mask *)

SetWorking(s) ==
    /\ perGameSettings_directBoot' = s.directBoot
    /\ perGameSettings_dsiMode' = s.dsiMode
    /\ perGameSettings_language' = s.language
    /\ perGameSettings_boostCpu' = s.boostCpu
    /\ perGameSettings_boostVram' = s.boostVram
    /\ perGameSettings_bootstrapFile' = s.bootstrapFile

\* the KEY_B block saving without the test of perGameSettingsChanged
ExitBlock_AlwaysSaves(s, changed, written) ==
    LET p == SettingsPath(secondaryDevice, filename)
    IN  /\ files' = [files EXCEPT ![p] =
                        SaveIniFile(files[p],
                                    SavedIni(files[p], s, isHomebrew,
                                             isDSiMode, secondaryDevice),
                                    written)]
        /\ saveResult' = IF written THEN "written" ELSE "failed"
        /\ perGameSettingsChanged' = FALSE
        /\ pc' = "idle"

\* the KEY_B block of the editable screens; written: SaveIniFile succeeded
ExitBlock(s, changed, written) ==
    LET p == SettingsPath(secondaryDevice, filename)
    IN  /\ pc' = "idle"
        /\ perGameSettingsChanged' = FALSE
        /\ IF changed
           THEN /\ saveResult' = IF written THEN "written" ELSE "failed"
                /\ files' = [files EXCEPT ![p] =
                                SaveIniFile(files[p],
                                            SavedIni(files[p], s, isHomebrew,
                                                     isDSiMode, secondaryDevice),
                                            written)]
           ELSE /\ written
                /\ UNCHANGED <<files, saveResult>>

HandleHomebrew(mask) ==
    /\ pc = "loop"
    /\ frames < MaxFrames
    /\ isHomebrew = 1
    /\ frames' = frames + 1
    /\ LET c == MovedCursor(perGameSettings_cursorPosition, mask)
           s == IF "KEY_A" \in mask THEN ActivateHomebrew(c, Working) ELSE Working
           changed == IF "KEY_A" \in mask
                      THEN ChangedHomebrew(perGameSettingsChanged)
                      ELSE perGameSettingsChanged
       IN  /\ perGameSettings_cursorPosition' = c
           /\ SetWorking(s)
           /\ IF "KEY_B" \in mask
              THEN \E written \in BOOLEAN : ExitBlock(s, changed, written)
              ELSE /\ perGameSettingsChanged' = changed
                   /\ UNCHANGED <<files, saveResult, pc>>
    /\ UNCHANGED <<ctx, title, sessions, resolve>>

HandleInfo(mask) ==
    /\ pc = "loop"
    /\ frames < MaxFrames
    /\ InfoScreen
    /\ frames' = frames + 1
    /\ pc' = IF "KEY_A" \in mask \/ "KEY_B" \in mask THEN "idle" ELSE "loop"
    /\ UNCHANGED <<ctx, title, resolve, perGameSettingsChanged,
                   perGameSettings_cursorPosition, settings, files, saveResult,
                   sessions>>

HandleRetail(mask) ==
    /\ pc = "loop"
    /\ frames < MaxFrames
    /\ isHomebrew # 1
    /\ ~InfoScreen
    /\ frames' = frames + 1
    /\ LET c == MovedCursor(perGameSettings_cursorPosition, mask)
           s == IF "KEY_A" \in mask THEN ActivateRetail(c, Working) ELSE Working
           changed == IF "KEY_A" \in mask
                      THEN ChangedRetail(perGameSettingsChanged)
                      ELSE perGameSettingsChanged
       IN  /\ perGameSettings_cursorPosition' = c
           /\ SetWorking(s)
           /\ IF "KEY_B" \in mask
              THEN \E written \in BOOLEAN : ExitBlock(s, changed, written)
              ELSE /\ perGameSettingsChanged' = changed
                   /\ UNCHANGED <<files, saveResult, pc>>
    /\ UNCHANGED <<ctx, title, sessions, resolve>>

----------------------------------------------------------------------------
(* dontShowAPMsgAgain(filename), called by the launcher outside the editor *)

dontShowAPMsgAgain(fname, written) ==
    /\ pc = "idle"
    /\ LET p == SettingsPath(secondaryDevice, fname)
       IN  files' = [files EXCEPT ![p] =
                        SaveIniFile(files[p],
                                    SetInt(files[p], "NO_SHOW_AP_MSG", 1),
                                    written)]
    /\ UNCHANGED <<ctx, title, resolve, pc, perGameSettingsChanged,
                   perGameSettings_cursorPosition, settings, saveResult,
                   sessions, frames>>

----------------------------------------------------------------------------
(* perGameSettings(filename) for a .launcharg title: the search for the     *)
(* title's executable, one step per access() call                           *)

\* the .launcharg title of the model
LaunchargTitle == [base |-> "chan", ext |-> "launcharg"]

\* which versions have an executable: none, the first, one further on, the last
AppFileSets == {{}, {0}, {3}, {255}}

InitResolve ==
    /\ InitEditor
    /\ appVer = 0
    /\ probes = 0
    /\ appFiles \in AppFileSets

\* the loop condition "appVer <= 0xFF" on the u8 counter
LoopCondition(v) == v <= 255

\* appVer++ on a u8
Increment(v) == (v + 1) % 256

\* the entry for a .launcharg title, up to "for (u8 appVer = 0; ..."
OpenLauncharg(class) ==
    /\ pc = "idle"
    /\ sessions < MaxSessions
    /\ SetWorking(LoadedSettings(files[SettingsPath(secondaryDevice, LaunchargTitle)],
                                 secondaryDevice))
    /\ perGameSettings_cursorPosition' = 0
    /\ filename' = LaunchargTitle
    /\ isLauncharg' = IsLaunchargName(LaunchargTitle)
    /\ isHomebrew' = class.isHomebrew
    /\ isDSiWare' = class.isDSiWare
    /\ LoopCondition(0)
    /\ appVer' = 0
    /\ probes' = 0
    /\ pc' = "resolve"
    /\ saveResult' = "none"
    /\ sessions' = sessions + 1
    /\ UNCHANGED <<ctx, perGameSettingsChanged, files, frames, appFiles>>

\* one pass of the loop body: access(appPath); break when the file exists,
\* else appVer++ and the loop condition again
ProbeApp ==
    /\ pc = "resolve"
    /\ probes < MaxProbes
    /\ probes' = probes + 1
    /\ IF appVer \in appFiles
       THEN /\ appVer' = appVer
            /\ pc' = "loop"
       ELSE /\ appVer' = Increment(appVer)
            /\ pc' = IF LoopCondition(Increment(appVer)) THEN "resolve" ELSE "loop"
    /\ UNCHANGED <<ctx, title, perGameSettingsChanged,
                   perGameSettings_cursorPosition, settings, files, saveResult,
                   sessions, frames, appFiles>>

----------------------------------------------------------------------------
(* What the screen shows: rows and value labels of the rendering code *)

Fields == {"DirectBoot", "RunMode", "Language", "CpuBoost", "VramBoost",
           "BootstrapVariant"}

\* the rows the homebrew screen prints
RowShownHomebrew(f) ==
    CASE f = "DirectBoot"       -> TRUE
      [] f = "RunMode"          -> isDSiMode
      [] f = "CpuBoost"         -> REG_SCFG_EXT # 0
      [] f = "VramBoost"        -> REG_SCFG_EXT # 0
      [] f = "BootstrapVariant" -> REG_SCFG_EXT # 0 /\ useBootstrap
      [] OTHER                  -> FALSE

\* the rows the non-homebrew settings screen prints
RowShownRetail(f) ==
    CASE f = "Language"         -> useBootstrap
      [] f = "RunMode"          -> isDSiMode
      [] f = "CpuBoost"         -> REG_SCFG_EXT # 0
      [] f = "VramBoost"        -> REG_SCFG_EXT # 0
      [] f = "BootstrapVariant" -> useBootstrap
      [] OTHER                  -> FALSE

\* the rows of the screen drawn for the current title (none on the Info screen)
RowShown(f) ==
    IF isHomebrew = 1 THEN RowShownHomebrew(f)
    ELSE IF InfoScreen THEN FALSE
    ELSE RowShownRetail(f)

\* the field the KEY_A switch changes at cursor position c
FieldAt(c) ==
    CASE c = 1 -> "RunMode"
      [] c = 2 -> "CpuBoost"
      [] c = 3 -> "VramBoost"
      [] c = 4 -> "BootstrapVariant"
      [] OTHER -> IF isHomebrew = 1 THEN "DirectBoot" ELSE "Language"

\* the KEY_A switch of the screen drawn for the current title
Activate(c, s) ==
    IF isHomebrew = 1 THEN ActivateHomebrew(c, s) ELSE ActivateRetail(c, s)

\* the key of the settings file that stores field f
KeyOf(f) ==
    CASE f = "DirectBoot"       -> "DIRECT_BOOT"
      [] f = "RunMode"          -> "DSI_MODE"
      [] f = "Language"         -> "LANGUAGE"
      [] f = "CpuBoost"         -> "BOOST_CPU"
      [] f = "VramBoost"        -> "BOOST_VRAM"
      [] f = "BootstrapVariant" -> "BOOTSTRAP_FILE"

\* the working value of field f in the record s
ValueOf(s, f) ==
    CASE f = "DirectBoot"       -> BoolToInt(s.directBoot)
      [] f = "RunMode"          -> s.dsiMode
      [] f = "Language"         -> s.language
      [] f = "CpuBoost"         -> s.boostCpu
      [] f = "VramBoost"        -> s.boostVram
      [] f = "BootstrapVariant" -> s.bootstrapFile

\* label printed for a CPU speed value
CpuText(v) ==
    IF v = -1 THEN "Default" ELSE IF v = 1 THEN "133mhz (TWL)" ELSE "67mhz (NTR)"

\* label printed for a VRAM boost value
VramText(v) ==
    IF v = -1 THEN "Default" ELSE IF v = 1 THEN "On" ELSE "Off"

\* "ARM9 CPU Speed:" as rendered
RenderedCpu ==
    IF perGameSettings_dsiMode > 0 /\ isDSiMode
    THEN "133mhz (TWL)"
    ELSE CpuText(perGameSettings_boostCpu)

\* "VRAM boost:" as rendered
RenderedVram ==
    IF perGameSettings_dsiMode > 0 /\ isDSiMode
    THEN "On"
    ELSE VramText(perGameSettings_boostVram)

\* the loop is showing a screen with a cursor
Browsing == pc = "loop" /\ ~InfoScreen

\* one frame in which the only key down is k, on a screen with a cursor
Press(k) == HandleHomebrew({k}) \/ HandleRetail({k})

\* the file of the title the editor was last opened for
CurrentPath == SettingsPath(secondaryDevice, filename)

\* keys of the fields shown as rows for the current title
ShownKeys == {KeyOf(f) : f \in {g \in Fields : RowShown(g)}}

\* keys savePerGameSettings sets in the current context
KeysSet ==
    DOMAIN SavedIni(EmptyIni, Working, isHomebrew, isDSiMode, secondaryDevice)

\* the step leaves the loop through the KEY_B block
ExitStep == pc = "loop" /\ pc' = "idle" /\ ~InfoScreen

----------------------------------------------------------------------------
(* Claims *)

\* C1: when a session exits dirty and the save is written, re-opening the
\* editor for the same title in the same context loads, for every field shown
\* as a row, the value the field had at exit.
C1_RoundTrip ==
    [][ ( /\ pc = "idle" /\ pc' = "loop"
          /\ saveResult = "written"
          /\ filename' = filename
          /\ isHomebrew' = isHomebrew
          /\ isDSiWare' = isDSiWare )
        => \A f \in Fields :
              RowShown(f) => ValueOf(Working', f) = ValueOf(Working, f) ]_vars

\* C2: a KEY_A press on a field that the press changes leaves the dirty flag
\* true, on the homebrew and on the non-homebrew screen.
C2_ActivateSetsDirty ==
    [][ ( /\ Press("KEY_A")
          /\ Activate(perGameSettings_cursorPosition, Working) # Working )
        => perGameSettingsChanged' ]_vars

\* C3: while a screen with a cursor is shown, the cursor is in range and on
\* a field that the screen shows as a row.
C3_CursorOnShownRow ==
    Browsing =>
        /\ perGameSettings_cursorPosition \in 0..4
        /\ RowShown(FieldAt(perGameSettings_cursorPosition))

\* cursor positions of the rows shown
ShownPositions == {c \in 0..4 : RowShown(FieldAt(c))}

RECURSIVE DownTimes(_, _)
DownTimes(n, c) == IF n = 0 THEN c ELSE DownTimes(n - 1, CursorDown(c))

SetMax(S) == CHOOSE x \in S : \A y \in S : y <= x
SetMin(S) == CHOOSE x \in S : \A y \in S : x <= y

\* C4: cursor movement is circular over the shown rows: next from the last
\* row is the first, previous from the first is the last, previous undoes
\* next, and as many next moves as there are rows return to the start.
C4_CircularMoves ==
    Browsing =>
        LET c == perGameSettings_cursorPosition
        IN  /\ ShownPositions # {}
            /\ (c = SetMax(ShownPositions) => CursorDown(c) = SetMin(ShownPositions))
            /\ (c = SetMin(ShownPositions) => CursorUp(c) = SetMax(ShownPositions))
            /\ CursorUp(CursorDown(c)) = c
            /\ DownTimes(Cardinality(ShownPositions), c) = c

\* RunMode holds the forced value while the boost rows are shown
ForcedWithBoostShown ==
    /\ Browsing
    /\ REG_SCFG_EXT # 0
    /\ perGameSettings_dsiMode = 2

\* C5: while RunMode is forced, the boost rows show the boosted value, and a
\* KEY_A press with the cursor on CpuBoost or VramBoost changes neither the
\* stored boost values nor the dirty flag.
C5_ForcedBoostReadOnly ==
    [][ /\ ForcedWithBoostShown =>
             (RenderedCpu = "133mhz (TWL)" /\ RenderedVram = "On")
        /\ ( /\ ForcedWithBoostShown
             /\ perGameSettings_cursorPosition \in {2, 3}
             /\ Press("KEY_A") )
           => /\ perGameSettings_boostCpu' = perGameSettings_boostCpu
              /\ perGameSettings_boostVram' = perGameSettings_boostVram
              /\ perGameSettingsChanged' = perGameSettingsChanged ]_vars

\* KEY_A with the cursor on the field would change its stored value
CpuEditable == Activate(2, Working).boostCpu # perGameSettings_boostCpu
VramEditable == Activate(3, Working).boostVram # perGameSettings_boostVram

\* C6: an editable boost field shows its stored override; a boost field that
\* is not editable shows the boosted value.
C6_EffectiveBoost ==
    (Browsing /\ REG_SCFG_EXT # 0) =>
        /\ CpuEditable => RenderedCpu = CpuText(perGameSettings_boostCpu)
        /\ ~CpuEditable => RenderedCpu = "133mhz (TWL)"
        /\ VramEditable => RenderedVram = VramText(perGameSettings_boostVram)
        /\ ~VramEditable => RenderedVram = "On"

\* C7: a save sets only keys of fields that are shown as rows in the context
\* of the session.
C7_SaveOnlyShownKeys ==
    (pc = "idle" /\ saveResult = "written") => KeysSet \subseteq ShownKeys

\* C8: the exit of a session leaves every key that is not the key of a shown
\* field as it was in the title's file (same value, or absent), and leaves
\* every other file alone.
C8_SaveFrame ==
    [][ ExitStep =>
          /\ \A p \in DOMAIN files : p # CurrentPath => files'[p] = files[p]
          /\ \A k \in IniKeys \ ShownKeys :
                /\ (k \in DOMAIN files'[CurrentPath]) = (k \in DOMAIN files[CurrentPath])
                /\ k \in DOMAIN files[CurrentPath] =>
                      files'[CurrentPath][k] = files[CurrentPath][k] ]_vars

\* C9: a homebrew title with the extended configuration register present and
\* no stored file: a session that changed DirectBoot and CpuBoost leaves, at
\* its exit, a file with exactly the keys DIRECT_BOOT, DSI_MODE, BOOST_CPU and
\* BOOST_VRAM.
C9_ScenarioC ==
    [][ ( /\ ExitStep
          /\ isHomebrew = 1
          /\ REG_SCFG_EXT # 0
          /\ files[CurrentPath] = EmptyIni
          /\ perGameSettings_directBoot' # secondaryDevice
          /\ perGameSettings_boostCpu' # -1
          /\ saveResult' # "failed" )
        => DOMAIN files'[CurrentPath] =
              {"DIRECT_BOOT", "DSI_MODE", "BOOST_CPU", "BOOST_VRAM"} ]_vars

\* the context of scenario D
ScenarioD == isHomebrew # 1 /\ ~isDSiMode /\ ~useBootstrap

\* C10: for a non-homebrew title without DSi mode and without bootstrap
\* helper, no step of a session changes any settings file.
C10_ScenarioD ==
    [][ (pc = "loop" /\ ScenarioD) => files' = files ]_vars

\* a dirty exit in scenario D whose save was carried out, with an edited
\* CpuBoost value that the file does not hold
C10_Witness ==
    /\ pc = "idle"
    /\ ScenarioD
    /\ saveResult = "written"
    /\ perGameSettings_boostCpu #
          LoadedSettings(files[CurrentPath], secondaryDevice).boostCpu

\* the values a field takes, by the claim: the sentinel first
Domain(f) ==
    CASE f = "DirectBoot"       -> 0..1
      [] f = "RunMode"          -> -1..2
      [] f = "Language"         -> -2..5
      [] f = "CpuBoost"         -> -1..1
      [] f = "VramBoost"        -> -1..1
      [] f = "BootstrapVariant" -> -1..1

\* the working values after n KEY_A presses with the cursor at c
RECURSIVE ActivateTimes(_, _, _)
ActivateTimes(n, c, s) ==
    IF n = 0 THEN s ELSE ActivateTimes(n - 1, c, Activate(c, s))

\* the working values are in their domains
WorkingInDomain == \A f \in Fields : ValueOf(Working, f) \in Domain(f)

\* C11: from any in-domain value, as many KEY_A presses on an editable field
\* as its domain has values (2 DirectBoot, 4 RunMode, 8 Language, 3 CpuBoost,
\* VramBoost, BootstrapVariant) return the field to its value and visit every
\* value of the domain exactly once; RunMode from -1 goes 0, 1, 2, -1.
C11_ValueCycle ==
    (Browsing /\ WorkingInDomain) =>
        LET c == perGameSettings_cursorPosition
            f == FieldAt(c)
            n == Cardinality(Domain(f))
        IN  Activate(c, Working) # Working =>
              /\ ActivateTimes(n, c, Working) = Working
              /\ {ValueOf(ActivateTimes(i, c, Working), f) : i \in 0..(n - 1)}
                    = Domain(f)
              /\ \A i \in 1..(n - 1) : ActivateTimes(i, c, Working) # Working
              /\ (f = "RunMode" /\ perGameSettings_dsiMode = -1) =>
                    /\ ActivateTimes(1, c, Working).dsiMode = 0
                    /\ ActivateTimes(2, c, Working).dsiMode = 1
                    /\ ActivateTimes(3, c, Working).dsiMode = 2
                    /\ ActivateTimes(4, c, Working).dsiMode = -1

\* a session in which KEY_A wrapped RunMode from its last value 2 to -1
C11_Witness ==
    /\ Browsing
    /\ perGameSettingsChanged
    /\ GetInt(files[CurrentPath], "DSI_MODE", -1) = 2
    /\ perGameSettings_dsiMode = -1

\* the value a field has when its key is absent, by the claim
Sentinel(f, secondary) ==
    CASE f = "DirectBoot"       -> IF secondary THEN 1 ELSE 0
      [] f = "RunMode"          -> -1
      [] f = "Language"         -> -2
      [] f = "CpuBoost"         -> -1
      [] f = "VramBoost"        -> -1
      [] f = "BootstrapVariant" -> -1

\* the step opens a session
OpenStep == pc = "idle" /\ pc' = "loop"

\* C12: loading a title yields, for every field whose key is absent from the
\* title's file (all of them when there is no file), the sentinel: DirectBoot
\* false on the primary device and true on the secondary, RunMode -1,
\* Language -2, CpuBoost -1, VramBoost -1, BootstrapVariant -1; a key that is
\* present yields the stored value.
C12_LoadDefaults ==
    [][ OpenStep =>
          LET ini == files[SettingsPath(secondaryDevice, filename')]
          IN  \A f \in Fields :
                LET v == ValueOf(Working, f)'
                IN  IF KeyOf(f) \in DOMAIN ini
                    THEN IF f = "DirectBoot"
                         THEN v = (IF ini[KeyOf(f)] # 0 THEN 1 ELSE 0)
                         ELSE v = ini[KeyOf(f)]
                    ELSE v = Sentinel(f, secondaryDevice) ]_vars

\* a title opened on a file that holds DIRECT_BOOT but no LANGUAGE, with the
\* stored DirectBoot and the Language sentinel loaded
C12_Witness ==
    /\ pc = "loop"
    /\ perGameSettings_cursorPosition = 0
    /\ ~perGameSettingsChanged
    /\ "DIRECT_BOOT" \in DOMAIN files[CurrentPath]
    /\ "LANGUAGE" \notin DOMAIN files[CurrentPath]
    /\ perGameSettings_directBoot = (files[CurrentPath]["DIRECT_BOOT"] # 0)
    /\ perGameSettings_language = -2
    /\ perGameSettings_dsiMode = -1

\* C13: every session starts with the cursor at 0 and the dirty flag false,
\* whatever happened in earlier sessions.
C13_SessionStart ==
    [][ OpenStep =>
          /\ perGameSettings_cursorPosition' = 0
          /\ ~perGameSettingsChanged' ]_vars

\* a second session just opened, after a session that saved edited values
C13_Witness ==
    /\ pc = "loop"
    /\ sessions = 2
    /\ saveResult = "none"
    /\ perGameSettings_cursorPosition = 0
    /\ ~perGameSettingsChanged
    /\ \E d \in Devices, t \in Titles :
          /\ "DSI_MODE" \in DOMAIN files[<<d, t>>]
          /\ "DSI_MODE" \notin DOMAIN InitialFiles[<<d, t>>]

\* C14: when the save run by the KEY_B block fails to write the file, the
\* failure is reported and the dirty flag stays true.
C14_FailedSaveStaysDirty ==
    saveResult = "failed" => perGameSettingsChanged

\* every settings path of the model
Paths == DOMAIN files

NextBoost(v) == IF v = 1 THEN -1 ELSE v + 1

\* C16: whenever the boost rows are shown, for homebrew and non-homebrew
\* titles alike, a KEY_A press with the cursor on CpuBoost or VramBoost while
\* RunMode is -1, 0 or 1 advances that field.
C16_BoostEditableUnlessForced ==
    [][ ( /\ Browsing
          /\ RowShown("CpuBoost")
          /\ perGameSettings_dsiMode \in {-1, 0, 1}
          /\ Press("KEY_A") )
        => /\ perGameSettings_cursorPosition = 2 =>
                 perGameSettings_boostCpu' = NextBoost(perGameSettings_boostCpu)
           /\ perGameSettings_cursorPosition = 3 =>
                 perGameSettings_boostVram' = NextBoost(perGameSettings_boostVram)
      ]_vars

\* C17: opening the editor for a .launcharg title terminates: the search over
\* the versions 0x00..0xFF ends after at most 256 probes, also when no
\* candidate exists.
C17_ResolutionBounded == probes <= 256

\* one frame of an editable screen with key mask m
Frame(m) == HandleHomebrew(m) \/ HandleRetail(m)

\* C18: within a session the title's file is written only by the KEY_B block
\* taken while the dirty flag is true: no cursor move, no KEY_A and no KEY_B
\* with the flag false writes storage or runs the save; a frame with KEY_B in
\* any state of an editable screen ends the session in that step; after every
\* exit the dirty flag is false.
C18_ExitLifecycle ==
    [][ pc = "loop" =>
          /\ (files' # files \/ saveResult' # saveResult) =>
                /\ pc' = "idle"
                /\ \E m \in KeyMasks :
                      /\ "KEY_B" \in m
                      /\ Frame(m)
                      /\ perGameSettingsChanged \/ "KEY_A" \in m
                /\ ~(Press("KEY_B") /\ ~perGameSettingsChanged)
          /\ (files' # files \/ saveResult' # saveResult \/ pc' # "loop") =>
                \A k \in {"KEY_UP", "KEY_DOWN", "KEY_A"} : ~Press(k)
          /\ pc' = "loop" =>
                \A m \in KeyMasks :
                   "KEY_B" \in m => ~(Frame(m) \/ HandleInfo(m))
          /\ pc' = "idle" => ~perGameSettingsChanged' ]_vars

\* a session left through KEY_B while dirty: the save ran and wrote the file,
\* and the dirty flag is false
C18_Witness ==
    /\ pc = "idle"
    /\ saveResult = "written"
    /\ ~perGameSettingsChanged
    /\ files[CurrentPath] # InitialFiles[CurrentPath]
    /\ files[CurrentPath] =
          SavedIni(files[CurrentPath], Working, isHomebrew, isDSiMode,
                   secondaryDevice)

\* what a file holds under key k: its value, or nothing
KeyEntry(ini, k) == IF k \in DOMAIN ini THEN <<ini[k]>> ELSE <<>>

\* C19: in a session for a non-homebrew title no input changes DirectBoot and
\* nothing sets DIRECT_BOOT in a file; in a session for a homebrew title no
\* input changes Language and nothing sets LANGUAGE in a file.
C19_FieldsByTitleKind ==
    [][ pc = "loop" =>
          /\ isHomebrew # 1 =>
                /\ perGameSettings_directBoot' = perGameSettings_directBoot
                /\ "DIRECT_BOOT" \notin KeysSet
                /\ \A p \in Paths :
                      KeyEntry(files'[p], "DIRECT_BOOT") = KeyEntry(files[p], "DIRECT_BOOT")
          /\ isHomebrew = 1 =>
                /\ perGameSettings_language' = perGameSettings_language
                /\ "LANGUAGE" \notin KeysSet
                /\ \A p \in Paths :
                      KeyEntry(files'[p], "LANGUAGE") = KeyEntry(files[p], "LANGUAGE") ]_vars

\* a non-homebrew session that edited Language and saved it into a file that
\* had no keys: the file holds LANGUAGE and no DIRECT_BOOT
C19_Witness ==
    /\ pc = "idle"
    /\ isHomebrew = 0
    /\ saveResult = "written"
    /\ InitialFiles[CurrentPath] = EmptyIni
    /\ "LANGUAGE" \in DOMAIN files[CurrentPath]
    /\ files[CurrentPath]["LANGUAGE"] = -1
    /\ "DIRECT_BOOT" \notin DOMAIN files[CurrentPath]

\* the info-only contexts, by the claim
InfoContext ==
    /\ isHomebrew # 1
    /\ \/ isLauncharg
       \/ isDSiWare
       \/ isHomebrew = 2
       \/ (~useBootstrap /\ REG_SCFG_EXT = 0)

\* C20: in a session for a non-homebrew title that is a launch-argument
\* title, DSi-digital, of homebrew type 2, or opened with no bootstrap helper
\* and no extended configuration, no input changes the cursor, a value or the
\* dirty flag; the only transition is the exit, taken on KEY_A or KEY_B, and
\* it writes nothing.
C20_InfoInert ==
    [][ (pc = "loop" /\ InfoContext) =>
          /\ UNCHANGED <<perGameSettings_cursorPosition, settings,
                         perGameSettingsChanged, files, saveResult>>
          /\ \E m \in KeyMasks :
                /\ HandleInfo(m)
                /\ pc' = "idle" <=> ("KEY_A" \in m \/ "KEY_B" \in m)
          /\ \A m \in KeyMasks :
                HandleInfo(m) => (pc' = "idle" <=> ("KEY_A" \in m \/ "KEY_B" \in m)) ]_vars

\* a session for a title of homebrew type 2, left again with nothing written
C20_Witness ==
    /\ pc = "idle"
    /\ sessions = 1
    /\ frames >= 2
    /\ isHomebrew = 2
    /\ InfoContext
    /\ files = InitialFiles
    /\ Working = LoadedSettings(files[CurrentPath], secondaryDevice)

\* the record s with field f set to v
WithValue(s, f, v) ==
    CASE f = "DirectBoot"       -> [s EXCEPT !.directBoot = (v # 0)]
      [] f = "RunMode"          -> [s EXCEPT !.dsiMode = v]
      [] f = "Language"         -> [s EXCEPT !.language = v]
      [] f = "CpuBoost"         -> [s EXCEPT !.boostCpu = v]
      [] f = "VramBoost"        -> [s EXCEPT !.boostVram = v]
      [] f = "BootstrapVariant" -> [s EXCEPT !.bootstrapFile = v]

\* every value a file holds under a field's key is in the field's domain
StoredInDomain ==
    \A p \in Paths : \A f \in Fields :
        KeyOf(f) \in DOMAIN files[p] => files[p][KeyOf(f)] \in Domain(f)

\* C21: with every loaded value in its field's domain (RunMode -1..2,
\* Language -2..5, CpuBoost, VramBoost and BootstrapVariant -1..1, DirectBoot
\* boolean), every working value and every value written to a file is in its
\* field's domain in every state reachable by cursor moves, KEY_A and KEY_B;
\* KEY_A takes every value of the domain of the field under the cursor to a
\* value of that domain.
C21_DomainInvariant ==
    /\ perGameSettings_directBoot \in BOOLEAN
    /\ \A f \in Fields : ValueOf(Working, f) \in Domain(f)
    /\ StoredInDomain
    /\ Browsing =>
          LET c == perGameSettings_cursorPosition
          IN  \A v \in Domain(FieldAt(c)) :
                 ValueOf(Activate(c, WithValue(Working, FieldAt(c), v)), FieldAt(c))
                     \in Domain(FieldAt(c))

\* a session that wrapped a stored RunMode 2 to -1 with KEY_A and wrote it
C21_Witness ==
    /\ pc = "idle"
    /\ saveResult = "written"
    /\ GetInt(InitialFiles[CurrentPath], "DSI_MODE", -1) = 2
    /\ GetInt(files[CurrentPath], "DSI_MODE", 2) = -1
    /\ perGameSettings_dsiMode = -1

\* C22: one frame applies at most one transition: whatever key mask is
\* delivered, also one with several of KEY_UP, KEY_DOWN, KEY_A and KEY_B set,
\* the step to the next rendered state is that of a single cursor move up, a
\* single cursor move down, a single KEY_A or a single KEY_B, or changes
\* nothing.
C22_OneTransitionPerFrame ==
    [][ (pc = "loop" /\ ~InfoScreen) =>
          \/ \E k \in Keys : Press(k)
          \/ UNCHANGED <<perGameSettings_cursorPosition, settings,
                         perGameSettingsChanged, files, saveResult, pc>> ]_vars

\* the value the title's file holds for field f, or the field's default
StoredOrDefault(ini, f, secondary) ==
    LET e == KeyEntry(ini, KeyOf(f))
    IN  IF e = <<>> THEN Sentinel(f, secondary)
        ELSE IF f = "DirectBoot" THEN BoolToInt(e[1] # 0)
        ELSE e[1]

\* C23: at the start of every session each of the six working values is the
\* value stored for the opened title on the current device, or the field's
\* default when none is stored; nothing an earlier session edited and did not
\* write is left in them.
C23_SessionIsolation ==
    [][ OpenStep =>
          \A f \in Fields :
              ValueOf(Working, f)' =
                  StoredOrDefault(files'[SettingsPath(secondaryDevice, filename')],
                                  f, secondaryDevice) ]_vars

\* a second session just opened on a title whose file holds DIRECT_BOOT = 0
\* and nothing else, after one frame in all: the first session, for the same
\* title as homebrew, took a mask with a cursor move to the bootstrap row,
\* KEY_A and KEY_B, so it stepped BootstrapVariant to 0 and its save wrote
\* DIRECT_BOOT only; the new session has BootstrapVariant -1
C23_Witness ==
    /\ pc = "loop"
    /\ sessions = 2
    /\ frames = 1
    /\ ~isDSiMode /\ ~secondaryDevice /\ useBootstrap /\ REG_SCFG_EXT = 0
    /\ InitialFiles[CurrentPath] = EmptyIni
    /\ DOMAIN files[CurrentPath] = {"DIRECT_BOOT"}
    /\ files[CurrentPath]["DIRECT_BOOT"] = 0
    /\ perGameSettings_bootstrapFile = -1
    /\ perGameSettings_cursorPosition = 0

\* C24: a cursor move changes only the cursor and leaves the six values and
\* the dirty flag as they are; KEY_A changes at most the field at the cursor
\* position, and the dirty flag, and leaves the cursor and every other field
\* as they are, so stepping RunMode into or out of 2 never changes the stored
\* CpuBoost and VramBoost.
C24_TransitionFrame ==
    [][ pc = "loop" =>
          /\ (Press("KEY_UP") \/ Press("KEY_DOWN")) =>
                UNCHANGED <<settings, perGameSettingsChanged, files, saveResult, pc>>
          /\ Press("KEY_A") =>
                /\ perGameSettings_cursorPosition' = perGameSettings_cursorPosition
                /\ \A f \in Fields \ {FieldAt(perGameSettings_cursorPosition)} :
                      ValueOf(Working, f)' = ValueOf(Working, f)
                /\ UNCHANGED <<files, saveResult, pc>>
                /\ perGameSettings_cursorPosition = 1 =>
                      UNCHANGED <<perGameSettings_boostCpu, perGameSettings_boostVram>>
      ]_vars

\* KEY_A on the RunMode row took a stored RunMode 2 to -1; CpuBoost and
\* VramBoost are the stored 0 and 1
C24_Witness ==
    /\ Browsing
    /\ perGameSettings_cursorPosition = 1
    /\ perGameSettingsChanged
    /\ files[CurrentPath] = StoredIni
    /\ perGameSettings_dsiMode = -1
    /\ perGameSettings_boostCpu = 0
    /\ perGameSettings_boostVram = 1

----------------------------------------------------------------------------

Next ==
    \/ \E fname \in Titles, class \in Classifications : Open(fname, class)
    \/ \E mask \in KeyMasks : HandleHomebrew(mask)
    \/ \E mask \in KeyMasks : HandleInfo(mask)
    \/ \E mask \in KeyMasks : HandleRetail(mask)
    \/ \E fname \in Titles, written \in BOOLEAN : dontShowAPMsgAgain(fname, written)

Spec == Init /\ [][Next]_vars

NextResolve ==
    \/ \E class \in Classifications : OpenLauncharg(class)
    \/ ProbeApp

SpecResolve == InitResolve /\ [][NextResolve]_vars

====
